---- MODULE Spec2Model ----
(***************************************************************************)
(* Model of the DID cache (DidCacheImpl) of src/src/Rooter.ts: the two     *)
(* maps opHashToInfo and nextVersion, the operations apply and rollback    *)
(* that mutate them, and the version-chain traversals next, last,          *)
(* previous and first that read them.                                      *)
(***************************************************************************)
EXTENDS Integers, Sequences, FiniteSets, TLC

\* The value JavaScript calls undefined, where a string is expected.
Undefined == "undefined"

\* Number of the last ledger transaction the observer has seen (0-based).
MaxTx == 3

\* Largest argument passed to rollback.
MaxRollback == 4

\* Longest sequence of apply calls recorded before a rollback is replayed.
MaxCalls == 3

\* Number of add calls made to the Rooter.
MaxAdds == 2

\* Number of invocations of rootOperations.
MaxTicks == 2

\* Largest block number the ledger reports as its last block.
MaxBlock == 1

----------------------------------------------------------------------------
(* The environment: operation buffers, batch files in CAS, the ledger.     *)

\* WriteOperation.create parses an operation buffer into its typed form.
\* Two Create buffers may carry the same encoded payload (bC and bC2).
ParsedOperation ==
  [ bC  |-> [type |-> "Create", encodedPayload |-> "pC",  operationBuffer |-> "bC"],
    bC2 |-> [type |-> "Create", encodedPayload |-> "pC",  operationBuffer |-> "bC2"],
    bU1 |-> [type |-> "Update", encodedPayload |-> "pU1", operationBuffer |-> "bU1",
             previousOperationHash |-> "C"],
    bU2 |-> [type |-> "Delete", encodedPayload |-> "pU2", operationBuffer |-> "bU2",
             previousOperationHash |-> "C"],
    bU3 |-> [type |-> "Update", encodedPayload |-> "pU3", operationBuffer |-> "bU3",
             previousOperationHash |-> "U1"] ]

\* Base58 multihash of a content buffer: injective on the buffers in use.
Multihash ==
  [ pC |-> "C", bC |-> "XC", bC2 |-> "XC2", bU1 |-> "U1", bU2 |-> "U2", bU3 |-> "U3",
    pU1 |-> "XU1", pU2 |-> "XU2", pU3 |-> "XU3" ]

\* Content of the batch files held by the CAS, by batch file hash.
BatchFileContent ==
  [ b0 |-> <<"bU3">>,
    b1 |-> <<"bC">>,
    b2 |-> <<"bU1", "bU2">>,
    b3 |-> <<"bU3", "bC2">>,
    b4 |-> <<"bU2", "bU1">> ]

\* The ledger: transaction number n is entry n+1; each anchors one batch file.
Ledger ==
  << [blockNumber |-> 0, batchFileHash |-> "b0"],
     [blockNumber |-> 1, batchFileHash |-> "b1"],
     [blockNumber |-> 1, batchFileHash |-> "b2"],
     [blockNumber |-> 2, batchFileHash |-> "b3"],
     [blockNumber |-> 3, batchFileHash |-> "b4"] >>

TransactionNumbers == 0..MaxTx

OperationIndexes(tx) == 0..(Len(BatchFileContent[Ledger[tx + 1].batchFileHash]) - 1)

MetadataFields == {"blockNumber", "transactionNumber", "operationIndex", "batchFileHash"}

\* Restriction of a record to the fields outside drop.
Without(rec, drop) == [f \in (DOMAIN rec) \ drop |-> rec[f]]

\* WriteOperation.create(operationBuffer, resolvedTransaction, operationIndex).
WriteOperationCreate(operationBuffer, resolvedTransaction, operationIndex) ==
  LET parsed == ParsedOperation[operationBuffer]
      meta   == [blockNumber       |-> resolvedTransaction.blockNumber,
                 transactionNumber |-> resolvedTransaction.transactionNumber,
                 operationIndex    |-> operationIndex,
                 batchFileHash     |-> resolvedTransaction.batchFileHash]
  IN  [f \in (DOMAIN parsed) \cup MetadataFields |->
         IF f \in DOMAIN parsed THEN parsed[f] ELSE meta[f]]

\* The operation the observer resolves at ledger position (tx, idx).
ResolvedOperation(tx, idx) ==
  LET t == Ledger[tx + 1]
  IN  WriteOperationCreate(BatchFileContent[t.batchFileHash][idx + 1],
        [blockNumber |-> t.blockNumber, transactionNumber |-> tx,
         batchFileHash |-> t.batchFileHash],
        idx)

----------------------------------------------------------------------------
(* State.                                                                  *)

VARIABLES
  opHashToInfo,   \* Map<OperationHash, OperationInfo>: a function on the known hashes
  nextVersion,    \* Map<VersionId, VersionId>: sequence of <<key, value>> in insertion order
  result,         \* the last call made and how it ended
  minApplied,     \* per hash, earliest timestamp applied since the hash was last pruned
  rolledBack,     \* whether rollback has been called
  pc,             \* phase of the rollback-and-replay scenario
  history,        \* operations applied before the rollback, in order
  pending,        \* pruned operations still to re-apply
  saved,          \* the two maps just before the rollback
  readResult,     \* the last lookup or resolve and how it ended
  reading,        \* the lookup or resolve in progress: where it is suspended, its locals
  operations,     \* Rooter: Deque<Buffer> of queued operations, head first
  processing,     \* Rooter: the processing flag
  tick,           \* Rooter: per invocation of rootOperations, where it is and its locals
  casStore,       \* the buffers written to CAS by the Rooter
  ledgerLog,      \* the values written to the blockchain, in order
  added,          \* number of add calls made
  tickLog,        \* per invocation of rootOperations, what it has done so far
  drainLog        \* the non-empty batches getBatch has returned, in order

rooterVars == <<operations, processing, tick, casStore, ledgerLog, added, tickLog, drainLog>>

cacheVars == <<opHashToInfo, nextVersion, result, minApplied, rolledBack,
               pc, history, pending, saved, readResult, reading>>

vars == <<opHashToInfo, nextVersion, result, minApplied, rolledBack,
          pc, history, pending, saved, readResult, reading,
          operations, processing, tick, casStore, ledgerLog, added, tickLog, drainLog>>

scenarioVars == <<pc, history, pending, saved>>

----------------------------------------------------------------------------
(* Map primitives (insertion-ordered, as a JavaScript Map).                *)

MapHas(map, key) == \E i \in 1..Len(map) : map[i][1] = key

MapGet(map, key) ==
  IF MapHas(map, key)
    THEN map[CHOOSE i \in 1..Len(map) : map[i][1] = key][2]
    ELSE Undefined

MapSet(map, key, value) ==
  IF MapHas(map, key)
    THEN [i \in 1..Len(map) |-> IF map[i][1] = key THEN <<key, value>> ELSE map[i]]
    ELSE Append(map, <<key, value>>)

MapDelete(map, key) == SelectSeq(map, LAMBDA e : e[1] # key)

\* The map as a set of <<key, value>> pairs, forgetting insertion order.
MapEntries(map) == {map[i] : i \in 1..Len(map)}

----------------------------------------------------------------------------
(* Timestamps.                                                             *)

\* Variant that compares transaction numbers only.
earlier_TransactionOnly(ts1, ts2) ==
  ts1.transactionNumber < ts2.transactionNumber

earlier(ts1, ts2) ==
  \/ ts1.transactionNumber < ts2.transactionNumber
  \/ /\ ts1.transactionNumber = ts2.transactionNumber
     /\ ts1.operationIndex < ts2.operationIndex

----------------------------------------------------------------------------
(* apply.                                                                  *)

\* JavaScript truthiness of an optional string property.
Truthy(rec, f) == f \in DOMAIN rec /\ rec[f] # ""

\* Reading a property: an absent property reads as undefined.
Prop(rec, f) == IF f \in DOMAIN rec THEN rec[f] ELSE Undefined

getHash(operation) ==
  LET contentBuffer == IF operation.type = "Create"
                         THEN operation.encodedPayload
                         ELSE operation.operationBuffer
  IN  Multihash[contentBuffer]

Return(value) == [kind |-> "return", value |-> value]
Throw(error)  == [kind |-> "throw",  value |-> error]

\* Variant in which the operation applied last becomes the next version.
applyVersionChainUpdates_LastWins(info, nv, opHash, opInfo, prevVersionId) ==
  [nextVersion |-> MapSet(nv, prevVersionId, opHash), threw |-> FALSE]

\* Returns the new nextVersion map and whether a TypeError was raised.
applyVersionChainUpdates(info, nv, opHash, opInfo, prevVersionId) ==
  LET curUpdateToPrevVersionId == MapGet(nv, prevVersionId)
  IN  IF curUpdateToPrevVersionId # Undefined
        THEN IF curUpdateToPrevVersionId \notin DOMAIN info
               THEN [nextVersion |-> nv, threw |-> TRUE]
               ELSE IF earlier(info[curUpdateToPrevVersionId].timestamp, opInfo.timestamp)
                      THEN [nextVersion |-> nv, threw |-> FALSE]
                      ELSE [nextVersion |-> MapSet(nv, prevVersionId, opHash), threw |-> FALSE]
        ELSE [nextVersion |-> MapSet(nv, prevVersionId, opHash), threw |-> FALSE]

\* Variant without the batchFileHash check.
MissingMetadata_NoBatchFileHash(operation) ==
  IF "blockNumber" \notin DOMAIN operation THEN "blockNumber"
  ELSE IF "transactionNumber" \notin DOMAIN operation THEN "transactionNumber"
  ELSE IF "operationIndex" \notin DOMAIN operation THEN "operationIndex"
  ELSE Undefined

\* The first required metadata property that is undefined, in the order checked.
MissingMetadata(operation) ==
  IF "blockNumber" \notin DOMAIN operation THEN "blockNumber"
  ELSE IF "transactionNumber" \notin DOMAIN operation THEN "transactionNumber"
  ELSE IF "operationIndex" \notin DOMAIN operation THEN "operationIndex"
  ELSE IF "batchFileHash" \notin DOMAIN operation THEN "batchFileHash"
  ELSE Undefined

InvalidOperation == [ blockNumber       |-> "Invalid operation: blockNumber undefined",
                      transactionNumber |-> "Invalid operation: transactionNumber undefined",
                      operationIndex    |-> "Invalid operation: operationIndex undefined",
                      batchFileHash     |-> "Invalid operation: batchFileHash undefined" ]

TypeError == "TypeError: Cannot read property 'timestamp' of undefined"

OperationTimestampOf(operation) ==
  [blockNumber       |-> operation.blockNumber,
   transactionNumber |-> operation.transactionNumber,
   operationIndex    |-> operation.operationIndex]

OperationInfoOf(operation) ==
  [batchFileHash |-> Prop(operation, "batchFileHash"),
   type          |-> operation.type,
   timestamp     |-> OperationTimestampOf(operation)]

\* Map.set on opHashToInfo.
InfoSet(info, opHash, opInfo) ==
  [h \in (DOMAIN info) \cup {opHash} |-> IF h = opHash THEN opInfo ELSE info[h]]

\* Variant with the arguments of earlier exchanged.
IsDuplicateOfEarlier_Swapped(info, opHash, opInfo) ==
  opHash \in DOMAIN info /\ earlier(opInfo.timestamp, info[opHash].timestamp)

\* Whether the stored info makes the arriving operation a duplicate to ignore.
IsDuplicateOfEarlier(info, opHash, opInfo) ==
  opHash \in DOMAIN info /\ earlier(info[opHash].timestamp, opInfo.timestamp)

\* apply(operation) on the maps (info, nv): the maps afterwards and the outcome.
ApplyOn(info, nv, operation) ==
  LET opHash == getHash(operation) IN
  IF MissingMetadata(operation) # Undefined
    THEN [opHashToInfo |-> info, nextVersion |-> nv,
          outcome |-> Throw(InvalidOperation[MissingMetadata(operation)])]
    ELSE
      LET opInfo == OperationInfoOf(operation) IN
      IF IsDuplicateOfEarlier(info, opHash, opInfo)
        THEN [opHashToInfo |-> info, nextVersion |-> nv, outcome |-> Return(Undefined)]
        ELSE
          LET info2 == InfoSet(info, opHash, opInfo) IN
          IF Truthy(operation, "previousOperationHash")
            THEN LET chain == applyVersionChainUpdates(info2, nv, opHash, opInfo,
                                                       operation.previousOperationHash)
                 IN  [opHashToInfo |-> info2, nextVersion |-> chain.nextVersion,
                      outcome |-> IF chain.threw THEN Throw(TypeError) ELSE Return(opHash)]
            ELSE [opHashToInfo |-> info2, nextVersion |-> nv, outcome |-> Return(opHash)]

----------------------------------------------------------------------------
(* rollback.                                                               *)

\* The nextVersion.forEach loop: entries is the entry list as it stood when the
\* loop started, nv the live map. An entry deleted before its turn is skipped.
\* The callback receives (value, key): it names the value `version` and the
\* key `nextVersion`, reads opHashToInfo at the key and deletes at the value.
RECURSIVE RollbackNextVersion(_, _, _, _, _)
RollbackNextVersion(entries, i, nv, info, transactionNumber) ==
  IF i > Len(entries) THEN [nextVersion |-> nv, threw |-> FALSE]
  ELSE
    LET key   == entries[i][1]
        value == entries[i][2]
    IN  IF ~MapHas(nv, key)
          THEN RollbackNextVersion(entries, i + 1, nv, info, transactionNumber)
          ELSE IF key \notin DOMAIN info
            THEN [nextVersion |-> nv, threw |-> TRUE]
            ELSE IF info[key].timestamp.transactionNumber >= transactionNumber
              THEN RollbackNextVersion(entries, i + 1, MapDelete(nv, value), info,
                                       transactionNumber)
              ELSE RollbackNextVersion(entries, i + 1, nv, info, transactionNumber)

\* Variant that keeps the entries of transaction transactionNumber itself.
RollbackOpHashToInfo_GreaterThan(info, transactionNumber) ==
  [h \in {g \in DOMAIN info : ~(info[g].timestamp.transactionNumber > transactionNumber)}
     |-> info[h]]

\* The opHashToInfo.forEach loop.
RollbackOpHashToInfo(info, transactionNumber) ==
  [h \in {g \in DOMAIN info : ~(info[g].timestamp.transactionNumber >= transactionNumber)}
     |-> info[h]]

RollbackOn(info, nv, transactionNumber) ==
  LET loop == RollbackNextVersion(nv, 1, nv, info, transactionNumber) IN
  IF loop.threw
    THEN [opHashToInfo |-> info, nextVersion |-> loop.nextVersion,
          outcome |-> Throw(TypeError)]
    ELSE [opHashToInfo |-> RollbackOpHashToInfo(info, transactionNumber),
          nextVersion |-> loop.nextVersion, outcome |-> Return(Undefined)]

----------------------------------------------------------------------------
(* Version-chain traversal.                                                *)

\* getOperation(opInfo): read the batch file from CAS and rebuild the operation.
\* Nothing catches a rejection of cas.read or an error of BatchFile.fromBuffer:
\* for a batch file in unreadable the call fails with fault.
getOperation(opInfo, unreadable, fault) ==
  IF opInfo.batchFileHash \in unreadable THEN Throw(fault)
  ELSE
    LET batchFile == BatchFileContent[opInfo.batchFileHash]
        operationBuffer == batchFile[opInfo.timestamp.operationIndex + 1]
        resolvedTransaction == [blockNumber       |-> opInfo.timestamp.blockNumber,
                                transactionNumber |-> opInfo.timestamp.transactionNumber,
                                batchFileHash     |-> opInfo.batchFileHash]
    IN  Return(WriteOperationCreate(operationBuffer, resolvedTransaction,
                                    opInfo.timestamp.operationIndex))

previous(versionId, unreadable, fault) ==
  IF versionId \in DOMAIN opHashToInfo
    THEN LET op == getOperation(opHashToInfo[versionId], unreadable, fault)
         IN  IF op.kind = "throw" THEN op
             ELSE IF Truthy(op.value, "previousOperationHash")
               THEN Return(op.value.previousOperationHash)
               ELSE Return(Undefined)
    ELSE Return(Undefined)

RECURSIVE FirstLoop(_, _, _)
FirstLoop(versionId, unreadable, fault) ==
  LET prevVersionId == previous(versionId, unreadable, fault)
  IN  IF prevVersionId.kind = "throw" THEN prevVersionId
      ELSE IF prevVersionId.value = Undefined THEN Return(versionId)
      ELSE FirstLoop(prevVersionId.value, unreadable, fault)

first(versionId, unreadable, fault) ==
  IF versionId \notin DOMAIN opHashToInfo
    THEN Return(Undefined)
    ELSE FirstLoop(versionId, unreadable, fault)

next(versionId) == MapGet(nextVersion, versionId)

RECURSIVE LastLoop(_)
LastLoop(versionId) ==
  LET nextVersionId == next(versionId)
  IN  IF nextVersionId = Undefined THEN versionId ELSE LastLoop(nextVersionId)

last(versionId) ==
  IF versionId \notin DOMAIN opHashToInfo THEN Undefined ELSE LastLoop(versionId)

----------------------------------------------------------------------------
(* Bookkeeping that is not program state.                                  *)

NoOperation == [f \in {} |-> Undefined]

\* The operation an OperationInfo leads to when its batch file can be read.
StoredOperation(opInfo) == getOperation(opInfo, {}, Undefined).value

\* first(versionId) when every batch file can be read.
FirstWhenReadable(versionId) == first(versionId, {}, Undefined).value

HasMetadata(operation) == MetadataFields \subseteq DOMAIN operation

\* A timestamp as the pair the linear order is defined on.
OrderKey(ts) == <<ts.transactionNumber, ts.operationIndex>>

\* Lexicographic order on pairs.
PairLeq(a, b) == a[1] < b[1] \/ (a[1] = b[1] /\ a[2] <= b[2])

PairMin(a, b) == IF PairLeq(a, b) THEN a ELSE b

\* Least element of a non-empty finite set of pairs.
PairLeast(S) == CHOOSE a \in S : \A b \in S : PairLeq(a, b)

MinAppliedAfterApply(operation) ==
  IF ~HasMetadata(operation) THEN minApplied
  ELSE LET h == getHash(operation)
           k == OrderKey(OperationTimestampOf(operation))
       IN  [g \in (DOMAIN minApplied) \cup {h} |->
              IF g = h
                THEN IF h \in DOMAIN minApplied THEN PairMin(minApplied[h], k) ELSE k
                ELSE minApplied[g]]

\* A hash that rollback removed from opHashToInfo starts afresh.
MinAppliedAfterRollback(infoBefore, infoAfter) ==
  [g \in (DOMAIN minApplied) \ ((DOMAIN infoBefore) \ (DOMAIN infoAfter)) |-> minApplied[g]]

----------------------------------------------------------------------------
(* The calls.                                                              *)

DoApply(operation) ==
  LET post == ApplyOn(opHashToInfo, nextVersion, operation) IN
  /\ opHashToInfo' = post.opHashToInfo
  /\ nextVersion' = post.nextVersion
  /\ result' = [call |-> "apply", operation |-> operation, rollbackTo |-> 0,
                outcome |-> post.outcome, pruned |-> {}]
  /\ minApplied' = MinAppliedAfterApply(operation)
  /\ UNCHANGED rolledBack
  /\ UNCHANGED <<readResult, reading, rooterVars>>

DoRollback(transactionNumber) ==
  LET post == RollbackOn(opHashToInfo, nextVersion, transactionNumber) IN
  /\ opHashToInfo' = post.opHashToInfo
  /\ nextVersion' = post.nextVersion
  /\ result' = [call |-> "rollback", operation |-> NoOperation,
                rollbackTo |-> transactionNumber, outcome |-> post.outcome,
                pruned |-> (DOMAIN opHashToInfo) \ (DOMAIN post.opHashToInfo)]
  /\ minApplied' = MinAppliedAfterRollback(opHashToInfo, post.opHashToInfo)
  /\ rolledBack' = TRUE
  /\ UNCHANGED <<readResult, reading, rooterVars>>

\* The observer applies the operation at a ledger position, in any order; an
\* operation built without its resolved transaction lacks some metadata.
Apply ==
  \E tx \in TransactionNumbers : \E idx \in OperationIndexes(tx) :
    \E missing \in SUBSET MetadataFields :
      /\ pc = "free"
      /\ DoApply(Without(ResolvedOperation(tx, idx), missing))
      /\ UNCHANGED scenarioVars

Rollback ==
  \E transactionNumber \in 0..MaxRollback :
    /\ pc = "free"
    /\ DoRollback(transactionNumber)
    /\ UNCHANGED scenarioVars

NoMaps == [opHashToInfo |-> <<>>, nextVersion |-> <<>>]

\* No lookup or resolve is in progress.
NoReading == [pc |-> "idle", call |-> "none", argument |-> Undefined,
              versionId |-> Undefined, nextVersionId |-> Undefined,
              opInfo |-> NoOperation, ops |-> <<>>,
              outcome |-> [kind |-> "none", document |-> <<>>, error |-> Undefined],
              unreadable |-> {}]

NoRead == [call |-> "none", versionId |-> Undefined, unreadable |-> {},
           outcome |-> [kind |-> "none", document |-> <<>>, error |-> Undefined]]

\* No CAS hash yet.
NoHash == <<>>

\* An invocation of rootOperations that has not been made yet.
IdleTick == [pc |-> "idle", batch |-> <<>>, batchFileHash |-> NoHash,
             anchorFileAddress |-> NoHash]

NoTickLog == [outcome |-> "none", failedAt |-> "none", blockNumber |-> 0,
              drained |-> FALSE, queueAtDrain |-> <<>>, queueAfterDrain |-> <<>>,
              addedBeforeDrain |-> {}, addedAfterDrain |-> {},
              ledgerReads |-> 0, casWrites |-> <<>>, ledgerWrites |-> <<>>,
              processingAtExit |-> FALSE]

InitRooter ==
  /\ operations = <<>>
  /\ processing = FALSE
  /\ tick = [t \in 1..MaxTicks |-> IdleTick]
  /\ casStore = {}
  /\ ledgerLog = <<>>
  /\ added = 0
  /\ tickLog = [t \in 1..MaxTicks |-> NoTickLog]
  /\ drainLog = <<>>

InitCache ==
  /\ readResult = NoRead
  /\ reading = NoReading
  /\ InitRooter
  /\ opHashToInfo = <<>>
  /\ nextVersion = <<>>
  /\ result = [call |-> "none", operation |-> NoOperation, rollbackTo |-> 0,
               outcome |-> [kind |-> "none", value |-> Undefined], pruned |-> {}]
  /\ minApplied = <<>>
  /\ rolledBack = FALSE
  /\ history = <<>>
  /\ pending = <<>>
  /\ saved = NoMaps

Init == InitCache /\ pc = "free"

Next == Apply \/ Rollback

Spec == Init /\ [][Next]_vars

----------------------------------------------------------------------------
(* Rollback followed by a replay of what it pruned.                        *)

Maps == [opHashToInfo |-> opHashToInfo, nextVersion |-> nextVersion]

InitReplay == InitCache /\ pc = "applying"

ReplayApply ==
  \E tx \in TransactionNumbers : \E idx \in OperationIndexes(tx) :
    /\ pc = "applying"
    /\ Len(history) < MaxCalls
    /\ DoApply(ResolvedOperation(tx, idx))
    /\ history' = Append(history, ResolvedOperation(tx, idx))
    /\ UNCHANGED <<pc, pending, saved>>

ReplayRollback ==
  \E transactionNumber \in 0..MaxRollback :
    /\ pc = "applying"
    /\ DoRollback(transactionNumber)
    /\ saved' = Maps
    /\ pending' = SelectSeq(history, LAMBDA op : op.transactionNumber >= transactionNumber)
    /\ pc' = "replaying"
    /\ UNCHANGED history

ReplayPruned ==
  /\ pc = "replaying"
  /\ pending # <<>>
  /\ DoApply(Head(pending))
  /\ pending' = Tail(pending)
  /\ UNCHANGED <<pc, history, saved>>

NextReplay == ReplayApply \/ ReplayRollback \/ ReplayPruned

SpecReplay == InitReplay /\ [][NextReplay]_vars

ReplayFinished == pc = "replaying" /\ pending = <<>>

----------------------------------------------------------------------------
(* Properties.                                                             *)

LastCallReturned == result.outcome.kind = "return"

TxOf(info, h) == info[h].timestamp.transactionNumber

\* Strictly earlier in the (transactionNumber, operationIndex) order.
PairLess(a, b) == PairLeq(a, b) /\ a # b

\* C1: a rollback(T) that follows only apply calls leaves no nextVersion entry
\* whose value is an operation with transactionNumber >= T.
C1_RollbackPrunesNextVersion ==
  [][ (result'.call = "rollback" /\ result'.outcome.kind = "return" /\ ~rolledBack)
        => \A e \in MapEntries(nextVersion') :
             TxOf(opHashToInfo, e[2]) < result'.rollbackTo ]_vars

\* C2: a rollback(T) that returns removes from opHashToInfo exactly the entries
\* with transactionNumber >= T and leaves the other entries as they were.
C2_RollbackPrunesOpInfo ==
  [][ (result'.call = "rollback" /\ result'.outcome.kind = "return")
        => /\ DOMAIN opHashToInfo' =
                {h \in DOMAIN opHashToInfo : TxOf(opHashToInfo, h) < result'.rollbackTo}
           /\ \A h \in DOMAIN opHashToInfo' : opHashToInfo'[h] = opHashToInfo[h] ]_vars

\* A rollback has returned having pruned some entries and kept others.
C2_Witness ==
  /\ result.call = "rollback"
  /\ LastCallReturned
  /\ result.pruned # {}
  /\ DOMAIN opHashToInfo # {}

\* C3: every nextVersion entry (prev -> next) has next known to opHashToInfo,
\* and the operation next has previousOperationHash = prev.
C3_NextVersionWellFormed ==
  \A e \in MapEntries(nextVersion) :
    /\ e[2] \in DOMAIN opHashToInfo
    /\ Prop(StoredOperation(opHashToInfo[e[2]]), "previousOperationHash") = e[1]

\* C4: the stored timestamp of every applied hash is the least, in
\* (transactionNumber, operationIndex) order, of the timestamps it was applied
\* with since it was last pruned.
C4_EarliestTimestampStored ==
  \A h \in DOMAIN minApplied :
    /\ h \in DOMAIN opHashToInfo
    /\ OrderKey(opHashToInfo[h].timestamp) = minApplied[h]

\* An apply lost against an earlier stored timestamp of the same hash.
C4_Witness ==
  /\ result.call = "apply"
  /\ HasMetadata(result.operation)
  /\ result.outcome = Return(Undefined)
  /\ getHash(result.operation) \in DOMAIN opHashToInfo
  /\ PairLess(OrderKey(opHashToInfo[getHash(result.operation)].timestamp),
              OrderKey(OperationTimestampOf(result.operation)))

\* The applied hashes whose operation names prev as its previous version.
AppliedOn(prev) ==
  {h \in DOMAIN minApplied :
     \E b \in DOMAIN ParsedOperation :
       /\ getHash(ParsedOperation[b]) = h
       /\ Prop(ParsedOperation[b], "previousOperationHash") = prev}

PreviousHashes ==
  {ParsedOperation[b].previousOperationHash :
     b \in {c \in DOMAIN ParsedOperation : Truthy(ParsedOperation[c], "previousOperationHash")}}

\* C5: after apply calls only, nextVersion[prev] is an applied operation on
\* prev whose stored timestamp is the least among all operations applied on
\* prev; with U1@(2,0) and U2@(2,1) on C, next(C) = U1 and last(C) = U1.
C5_EarliestSiblingChosen ==
  ~rolledBack =>
    /\ \A prev \in PreviousHashes :
         AppliedOn(prev) # {} =>
           /\ MapHas(nextVersion, prev)
           /\ MapGet(nextVersion, prev) \in AppliedOn(prev)
           /\ OrderKey(opHashToInfo[MapGet(nextVersion, prev)].timestamp)
                = PairLeast({minApplied[h] : h \in AppliedOn(prev)})
    /\ ( /\ DOMAIN minApplied = {"C", "U1", "U2"}
         /\ minApplied["U1"] = <<2, 0>>
         /\ minApplied["U2"] = <<2, 1>> )
       => (next("C") = "U1" /\ last("C") = "U1")

\* The fork of the scenario: C, then U1@(2,0) and U2@(2,1) both on C.
C5_Witness ==
  /\ ~rolledBack
  /\ DOMAIN minApplied = {"C", "U1", "U2"}
  /\ minApplied["U1"] = <<2, 0>>
  /\ minApplied["U2"] = <<2, 1>>
  /\ next("C") = "U1"

\* C6: apply with complete metadata returns undefined and changes neither map
\* when the hash is stored with a strictly earlier timestamp, and returns the
\* operation hash in every other case.
C6_ApplyResult ==
  [][ (result'.call = "apply" /\ HasMetadata(result'.operation))
        => IF /\ getHash(result'.operation) \in DOMAIN opHashToInfo
              /\ PairLess(OrderKey(opHashToInfo[getHash(result'.operation)].timestamp),
                          OrderKey(OperationTimestampOf(result'.operation)))
             THEN /\ result'.outcome = Return(Undefined)
                  /\ UNCHANGED <<opHashToInfo, nextVersion>>
             ELSE result'.outcome = Return(getHash(result'.operation)) ]_vars

\* C7: apply of an operation lacking a required metadata property throws the
\* invalid-operation error and changes neither map.
C7_InvalidOperationRejected ==
  [][ (result'.call = "apply" /\ ~HasMetadata(result'.operation))
        => /\ result'.outcome.kind = "throw"
           /\ \E f \in MetadataFields \ DOMAIN result'.operation :
                result'.outcome.value = InvalidOperation[f]
           /\ UNCHANGED <<opHashToInfo, nextVersion>> ]_vars

\* An operation without some metadata was refused while the maps held entries.
C7_Witness ==
  /\ result.call = "apply"
  /\ ~HasMetadata(result.operation)
  /\ result.outcome.kind = "throw"
  /\ DOMAIN opHashToInfo # {}
  /\ nextVersion # <<>>

\* C8: rollback, and apply of an operation with complete metadata, never throw.
C8_NoThrowOnValidCalls ==
  ( \/ result.call = "rollback"
    \/ (result.call = "apply" /\ HasMetadata(result.operation)) )
  => LastCallReturned

\* C9: rollback(T) after apply calls, followed by re-applying in their
\* original order the operations with transactionNumber >= T, restores both maps.
C9_ReplayRestores ==
  ReplayFinished =>
    /\ opHashToInfo = saved.opHashToInfo
    /\ MapEntries(nextVersion) = MapEntries(saved.nextVersion)

\* C10: first(last(c)) = c for every known Create operation c.
C10_FirstOfLast ==
  \A c \in DOMAIN opHashToInfo :
    opHashToInfo[c].type = "Create" => FirstWhenReadable(last(c)) = c

\* The hashes of the operations that exist, known to the cache or not.
AllHashes == {getHash(ParsedOperation[b]) : b \in DOMAIN ParsedOperation}

\* The previous version an operation names, read off the operation itself.
NamedPrevious(h) ==
  LET b == CHOOSE c \in DOMAIN ParsedOperation : getHash(ParsedOperation[c]) = h
  IN  Prop(ParsedOperation[b], "previousOperationHash")

\* The version and its predecessors, back to the one without a previous version.
RECURSIVE Ancestry(_)
Ancestry(h) ==
  IF NamedPrevious(h) = Undefined THEN {h} ELSE {h} \cup Ancestry(NamedPrevious(h))

\* C11: first(v) is undefined when v or one of its predecessors is unknown to
\* opHashToInfo, and is the initial (Create) version of the chain otherwise.
C11_FirstUndefinedOnUnknown ==
  \A v \in AllHashes :
    FirstWhenReadable(v) = IF Ancestry(v) \subseteq DOMAIN opHashToInfo
                 THEN CHOOSE c \in Ancestry(v) : NamedPrevious(c) = Undefined
                 ELSE Undefined

----------------------------------------------------------------------------
(* lookup and resolve.                                                     *)

ReadUndefined   == [kind |-> "undefined", document |-> <<>>, error |-> Undefined]
ReadDocument(d) == [kind |-> "document", document |-> d, error |-> Undefined]
ReadThrow(e)    == [kind |-> "throw", document |-> <<>>, error |-> e]

\* The ways reading an operation back from CAS can fail: the read itself, or
\* the decoding of what was read.
ReadFaults == {"CasUnavailable", "MalformedBatchFile"}

isInitialVersion(opInfo) == opInfo.type = "Create"

\* WriteOperation.toDidDocument: the document a Create operation produces.
toDidDocument(op) == <<op.encodedPayload>>

\* didDocumentUpdate: the document after one more operation.
didDocumentUpdate(didDocument, op) == Append(didDocument, op.encodedPayload)

\* The document of a Create operation after the operations of ops, in order.
RECURSIVE UpdatedDocument(_, _)
UpdatedDocument(didDocument, ops) ==
  IF ops = <<>> THEN didDocument
  ELSE UpdatedDocument(didDocumentUpdate(didDocument, Head(ops)), Tail(ops))

\* The promise of the call settles with outcome; unreadable holds the batch
\* file whose read failed.
ReadEnds(call, argument, outcome, unreadable) ==
  /\ readResult' = [call |-> call, versionId |-> argument,
                    unreadable |-> unreadable, outcome |-> outcome]
  /\ reading' = NoReading

\* The innermost call has returned or thrown with outcome. The calls suspended
\* on it, at await this.lookup(prevVersion) or return this.lookup(latestVersion),
\* resume in later turns of the event loop and read the cache no more.
Returns(call, argument, outcome, unreadable) ==
  /\ reading' = [NoReading EXCEPT !.pc = "returning", !.call = call,
                                  !.argument = argument, !.outcome = outcome,
                                  !.unreadable = unreadable]
  /\ UNCHANGED readResult

\* lookup(versionId) up to its first await: the entry of opHashToInfo is read
\* now, then cas.read is called for its batch file. ops holds the operations
\* the enclosing lookup calls have read, the one next to versionId first;
\* awaited tells whether a caller is suspended on this lookup.
lookup(call, argument, versionId, ops, awaited) ==
  IF versionId \notin DOMAIN opHashToInfo
    THEN IF awaited
           THEN Returns(call, argument, ReadUndefined, {})
           ELSE ReadEnds(call, argument, ReadUndefined, {})
    ELSE /\ reading' = [NoReading EXCEPT !.pc = "casRead", !.call = call,
                                         !.argument = argument,
                                         !.versionId = versionId,
                                         !.opInfo = opHashToInfo[versionId],
                                         !.ops = ops]
         /\ UNCHANGED readResult

BatchFileHashes == {Ledger[tx + 1].batchFileHash : tx \in TransactionNumbers}

InitRead == InitCache /\ pc = "reading"

\* One lookup or resolve is followed from its call to its result; what the
\* cache does after the call has settled cannot change that result.
NotSettled == pc = "reading" /\ readResult = NoRead

\* apply is synchronous: it runs whole, before a read is called or while one
\* is suspended.
ReadApply ==
  \E tx \in TransactionNumbers : \E idx \in OperationIndexes(tx) :
    /\ NotSettled
    /\ DoApply(ResolvedOperation(tx, idx))
    /\ UNCHANGED scenarioVars

\* rollback is synchronous as well.
ReadRollback ==
  \E transactionNumber \in 0..MaxRollback :
    /\ NotSettled
    /\ DoRollback(transactionNumber)
    /\ UNCHANGED scenarioVars

ReadFrame == <<opHashToInfo, nextVersion, result, minApplied, rolledBack,
               scenarioVars, rooterVars>>

\* lookup(versionId) is called.
Lookup ==
  \E versionId \in AllHashes :
    /\ NotSettled
    /\ reading.pc = "idle"
    /\ lookup("lookup", versionId, versionId, <<>>, FALSE)
    /\ UNCHANGED ReadFrame

\* cas.read settles and getOperation returns or fails; lookup resumes and
\* returns, throws, or calls lookup for the previous version.
CasReadSettles ==
  \E unreadable \in SUBSET BatchFileHashes : \E fault \in ReadFaults :
    /\ NotSettled
    /\ reading.pc = "casRead"
    /\ unreadable \subseteq {reading.opInfo.batchFileHash}
    /\ LET op == getOperation(reading.opInfo, unreadable, fault) IN
       IF op.kind = "throw"
         THEN Returns(reading.call, reading.argument, ReadThrow(op.value), unreadable)
         ELSE IF isInitialVersion(reading.opInfo)
           THEN Returns(reading.call, reading.argument,
                        ReadDocument(UpdatedDocument(toDidDocument(op.value), reading.ops)),
                        {})
           ELSE lookup(reading.call, reading.argument,
                       Prop(op.value, "previousOperationHash"),
                       <<op.value>> \o reading.ops, TRUE)
    /\ UNCHANGED ReadFrame

\* resolve(didUniquePortion) is called: last runs up to its first await, the
\* call of next having read nextVersion already.
Resolve ==
  \E didUniquePortion \in AllHashes :
    /\ NotSettled
    /\ reading.pc = "idle"
    /\ reading' =
         IF didUniquePortion \notin DOMAIN opHashToInfo
           THEN [NoReading EXCEPT !.pc = "lastReturned", !.call = "resolve",
                                  !.argument = didUniquePortion]
           ELSE [NoReading EXCEPT !.pc = "next", !.call = "resolve",
                                  !.argument = didUniquePortion,
                                  !.versionId = didUniquePortion,
                                  !.nextVersionId = next(didUniquePortion)]
    /\ UNCHANGED readResult
    /\ UNCHANGED ReadFrame

\* last resumes with what next returned: it returns, or calls next again.
LastResumes ==
  /\ NotSettled
  /\ reading.pc = "next"
  /\ reading' =
       IF reading.nextVersionId = Undefined
         THEN [reading EXCEPT !.pc = "lastReturned"]
         ELSE [reading EXCEPT !.versionId = reading.nextVersionId,
                              !.nextVersionId = next(reading.nextVersionId)]
  /\ UNCHANGED readResult
  /\ UNCHANGED ReadFrame

\* resolve resumes with what last returned.
ResolveResumes ==
  /\ NotSettled
  /\ reading.pc = "lastReturned"
  /\ IF reading.versionId = Undefined
       THEN ReadEnds("resolve", reading.argument, ReadUndefined, {})
       ELSE lookup("resolve", reading.argument, reading.versionId, <<>>, TRUE)
  /\ UNCHANGED ReadFrame

\* The suspended callers have resumed one after the other: the promise of the
\* call settles.
ReadSettles ==
  /\ NotSettled
  /\ reading.pc = "returning"
  /\ ReadEnds(reading.call, reading.argument, reading.outcome, reading.unreadable)
  /\ UNCHANGED ReadFrame

NextRead ==
  \/ ReadApply
  \/ ReadRollback
  \/ Lookup
  \/ CasReadSettles
  \/ Resolve
  \/ LastResumes
  \/ ResolveResumes
  \/ ReadSettles

SpecRead == InitRead /\ [][NextRead]_vars

\* C12: lookup and resolve return undefined, and do not fail with the error,
\* when reading an operation back from CAS fails.
C12_ReadFailureGivesUndefined ==
  readResult.call \in {"lookup", "resolve"} =>
    readResult.outcome.kind \in {"undefined", "document"}

----------------------------------------------------------------------------
(* The Rooter: what it calls.                                              *)

\* The protocol versions, by the block they start at.
ProtocolVersions ==
  << [startingBlock |-> 0, maxOperationsPerBatch |-> 2],
     [startingBlock |-> 2, maxOperationsPerBatch |-> 1] >>

\* getProtocol(blockNumber): the version with the greatest startingBlock <= blockNumber.
getProtocol(blockNumber) ==
  LET i == CHOOSE j \in 1..Len(ProtocolVersions) :
             /\ ProtocolVersions[j].startingBlock <= blockNumber
             /\ \A k \in 1..Len(ProtocolVersions) :
                  ProtocolVersions[k].startingBlock <= blockNumber
                    => ProtocolVersions[k].startingBlock <= ProtocolVersions[j].startingBlock
  IN  ProtocolVersions[i]

\* BatchFile.fromOperations(batch).toBuffer().
BatchFileBuffer(batch) == <<"batchFile", batch>>

\* MerkleTree.create(batch).rootHash.
MerkleRootHash(batch) == <<"merkleRoot", batch>>

\* Buffer.from(JSON.stringify(anchorFile)).
AnchorFileBuffer(anchorFile) == <<"anchorFile", anchorFile.batchFileHash, anchorFile.merkleRoot>>

\* The address cas.write returns for a buffer: a function of its content.
CasHash(buffer) == <<"hash", buffer>>

----------------------------------------------------------------------------
(* The Rooter: rootOperations and getBatch.                                *)

\* The positions at which an invocation of rootOperations is suspended.
Awaiting == {"getLastBlock", "casWriteBatch", "casWriteAnchor", "blockchainWrite"}

\* The invocation t is between processing = true and the finally block: it is
\* suspended on an external call, or on getBatch, which has drained the queue
\* and returned.
InFlight(t) == tick[t].pc \in Awaiting \cup {"getBatchReturned"}

\* Variant without the check of the processing flag.
StillProcessing_Never(flag) == FALSE

\* if (this.processing) return;
StillProcessing(flag) == flag

\* Variant that resets the flag at the end of the try block only.
ProcessingAfterExit_NoFinally(outcome) == outcome # "anchored"

\* finally { this.processing = false }, whatever way the try block was left.
ProcessingAfterExit(outcome) == FALSE

\* Variant that ignores the protocol's limit.
BatchSize_NoLimit(queueSize, maxOperationsPerBatch) == queueSize

BatchSize(queueSize, maxOperationsPerBatch) ==
  IF queueSize > maxOperationsPerBatch THEN maxOperationsPerBatch ELSE queueSize

\* Variant that takes the operations from the tail of the queue.
ShiftedBatch_FromTail(queue, batchSize) ==
  [i \in 1..batchSize |-> queue[Len(queue) + 1 - i]]

\* The operations batchSize calls of operations.shift() return, in order.
ShiftedBatch(queue, batchSize) == SubSeq(queue, 1, batchSize)

\* Variant that reads the operations without removing them.
QueueAfterShift_Peek(queue, batchSize) == queue

\* The queue after batchSize calls of operations.shift().
QueueAfterShift(queue, batchSize) == SubSeq(queue, batchSize + 1, Len(queue))

\* Variant without the check for an empty batch.
IsEmptyBatch_Never(batch) == FALSE

IsEmptyBatch(batch) == Len(batch) = 0

\* Variant with the two fields exchanged.
AnchorFile_Swapped(batchFileHash, merkleRoot) ==
  [batchFileHash |-> merkleRoot, merkleRoot |-> batchFileHash]

AnchorFile(batchFileHash, merkleRoot) ==
  [batchFileHash |-> batchFileHash, merkleRoot |-> merkleRoot]

\* The invocation t leaves rootOperations: through return, or catch, then finally.
ExitTick(t, outcome, failedAt, log) ==
  /\ tick' = [tick EXCEPT ![t].pc = "done"]
  /\ processing' = ProcessingAfterExit(outcome)
  /\ tickLog' = [tickLog EXCEPT ![t] =
                   [log EXCEPT !.outcome = outcome, !.failedAt = failedAt,
                               !.processingAtExit = ProcessingAfterExit(outcome)]]

\* add(operation): the operation of the n-th call is the buffer n.
Add ==
  /\ added < MaxAdds
  /\ added' = added + 1
  /\ operations' = Append(operations, added + 1)
  /\ tickLog' = [t \in 1..MaxTicks |->
                   IF ~InFlight(t) THEN tickLog[t]
                   ELSE IF tickLog[t].drained
                     THEN [tickLog[t] EXCEPT !.addedAfterDrain = @ \cup {added + 1}]
                     ELSE [tickLog[t] EXCEPT !.addedBeforeDrain = @ \cup {added + 1}]]
  /\ UNCHANGED <<processing, tick, casStore, ledgerLog, drainLog, cacheVars>>

\* The interval timer, or a caller, invokes rootOperations.
RootOperations ==
  \E t \in 1..MaxTicks :
    /\ tick[t].pc = "idle"
    /\ IF t = 1 THEN TRUE ELSE tick[t - 1].pc # "idle"
    /\ IF StillProcessing(processing)
         THEN /\ tick' = [tick EXCEPT ![t].pc = "done"]
              /\ tickLog' = [tickLog EXCEPT ![t].outcome = "skipped"]
              /\ UNCHANGED processing
         ELSE /\ processing' = TRUE
              /\ tick' = [tick EXCEPT ![t].pc = "getLastBlock"]
              /\ tickLog' = [tickLog EXCEPT ![t].outcome = "running"]
    /\ UNCHANGED <<operations, casStore, ledgerLog, added, drainLog, cacheVars>>

\* blockchain.getLastBlock() resolves: getBatch resumes and runs to its return.
\* rootOperations is still suspended on getBatch.
GetLastBlockResolves ==
  \E t \in 1..MaxTicks : \E blockNumber \in 0..MaxBlock :
    /\ tick[t].pc = "getLastBlock"
    /\ LET protocol  == getProtocol(blockNumber + 1)
           queueSize == Len(operations)
           batchSize == BatchSize(queueSize, protocol.maxOperationsPerBatch)
           batch     == ShiftedBatch(operations, batchSize)
           queue     == QueueAfterShift(operations, batchSize)
           log       == [tickLog[t] EXCEPT !.blockNumber = blockNumber,
                                           !.drained = TRUE,
                                           !.queueAtDrain = operations,
                                           !.queueAfterDrain = queue,
                                           !.ledgerReads = @ + 1]
       IN  /\ operations' = queue
           /\ drainLog' = IF batch = <<>> THEN drainLog ELSE Append(drainLog, batch)
           /\ tick' = [tick EXCEPT ![t].pc = "getBatchReturned", ![t].batch = batch]
           /\ tickLog' = [tickLog EXCEPT ![t] = log]
    /\ UNCHANGED <<processing, casStore, ledgerLog, added, cacheVars>>

\* rootOperations resumes with the batch, a turn of the event loop after
\* getBatch returned: it returns on an empty batch, or calls cas.write.
GetBatchReturns ==
  \E t \in 1..MaxTicks :
    /\ tick[t].pc = "getBatchReturned"
    /\ IF IsEmptyBatch(tick[t].batch)
         THEN ExitTick(t, "empty", "none", tickLog[t])
         ELSE /\ tick' = [tick EXCEPT ![t].pc = "casWriteBatch"]
              /\ UNCHANGED <<processing, tickLog>>
    /\ UNCHANGED <<operations, casStore, ledgerLog, added, drainLog, cacheVars>>

\* cas.write(batchBuffer) resolves; the anchor file is built and written next.
CasWriteBatchResolves ==
  \E t \in 1..MaxTicks :
    /\ tick[t].pc = "casWriteBatch"
    /\ LET batchBuffer == BatchFileBuffer(tick[t].batch) IN
       /\ casStore' = casStore \cup {batchBuffer}
       /\ tick' = [tick EXCEPT ![t].pc = "casWriteAnchor",
                               ![t].batchFileHash = CasHash(batchBuffer)]
       /\ tickLog' = [tickLog EXCEPT ![t].casWrites = Append(@, batchBuffer)]
    /\ UNCHANGED <<operations, processing, ledgerLog, added, drainLog, cacheVars>>

\* cas.write(anchorFileJsonBuffer) resolves; blockchain.write is called next.
CasWriteAnchorResolves ==
  \E t \in 1..MaxTicks :
    /\ tick[t].pc = "casWriteAnchor"
    /\ LET merkleRoot == MerkleRootHash(tick[t].batch)
           anchorFile == AnchorFile(tick[t].batchFileHash, merkleRoot)
           anchorFileJsonBuffer == AnchorFileBuffer(anchorFile)
       IN  /\ casStore' = casStore \cup {anchorFileJsonBuffer}
           /\ tick' = [tick EXCEPT ![t].pc = "blockchainWrite",
                                   ![t].anchorFileAddress = CasHash(anchorFileJsonBuffer)]
           /\ tickLog' = [tickLog EXCEPT ![t].casWrites = Append(@, anchorFileJsonBuffer)]
    /\ UNCHANGED <<operations, processing, ledgerLog, added, drainLog, cacheVars>>

\* blockchain.write(anchorFileAddress) resolves; the try block ends.
BlockchainWriteResolves ==
  \E t \in 1..MaxTicks :
    /\ tick[t].pc = "blockchainWrite"
    /\ ledgerLog' = Append(ledgerLog, tick[t].anchorFileAddress)
    /\ ExitTick(t, "anchored", "none",
                [tickLog[t] EXCEPT !.ledgerWrites = Append(@, tick[t].anchorFileAddress)])
    /\ UNCHANGED <<operations, casStore, added, drainLog, cacheVars>>

\* The awaited call rejects: catch logs the error, finally runs.
AwaitRejects ==
  \E t \in 1..MaxTicks :
    /\ tick[t].pc \in Awaiting
    /\ ExitTick(t, "failed", tick[t].pc,
                IF tick[t].pc = "getLastBlock"
                  THEN [tickLog[t] EXCEPT !.ledgerReads = @ + 1,
                                          !.queueAtDrain = operations,
                                          !.queueAfterDrain = operations]
                  ELSE tickLog[t])
    /\ UNCHANGED <<operations, casStore, ledgerLog, added, drainLog, cacheVars>>

NextRooter ==
  \/ Add
  \/ RootOperations
  \/ GetLastBlockResolves
  \/ GetBatchReturns
  \/ CasWriteBatchResolves
  \/ CasWriteAnchorResolves
  \/ BlockchainWriteResolves
  \/ AwaitRejects

SpecRooter == Init /\ [][NextRooter]_vars

----------------------------------------------------------------------------
(* Properties of the Rooter.                                               *)

Ticks == 1..MaxTicks

TicksInFlight == {t \in Ticks : InFlight(t)}

\* The invocation t set the processing flag and has left rootOperations.
Exited(t) == tickLog[t].outcome \in {"anchored", "empty", "failed"}

Range(seq) == {seq[i] : i \in 1..Len(seq)}

\* C13: the processing flag is cleared on every exit path of the tick that set
\* it: it is false whenever no tick is in flight, whether the tick ended by
\* success, by an empty batch or by a failure of the ledger read, a CAS write or
\* the ledger write; a tick that found the flag set does not clear it, so the
\* flag stays true while the tick that set it is in flight.
C13_ProcessingCleared ==
  /\ TicksInFlight = {} => ~processing
  /\ \A t \in Ticks : Exited(t) => ~tickLog[t].processingAtExit
  /\ TicksInFlight # {} => processing

C13_Witness ==
  /\ TicksInFlight = {}
  /\ \E t \in Ticks : tickLog[t].outcome = "failed" /\ tickLog[t].failedAt = "blockchainWrite"
  /\ \E t \in Ticks : tickLog[t].outcome = "skipped"

\* A step in which rootOperations is called while the processing flag is set.
CalledWhileProcessing(t) == tick[t].pc = "idle" /\ tick'[t].pc # "idle" /\ processing

\* C14: ticks never overlap: at most one tick is between setting the
\* processing flag and clearing it, and a call of rootOperations made while the
\* flag is set returns at once, without reading the ledger, draining the queue,
\* writing to CAS or to the ledger, or changing the flag.
C14_TicksNeverOverlap ==
  /\ [](Cardinality(TicksInFlight) <= 1)
  /\ [][\A t \in Ticks :
          CalledWhileProcessing(t) =>
            /\ tick'[t].pc = "done"
            /\ tickLog'[t].ledgerReads = 0
            /\ UNCHANGED <<operations, processing, casStore, ledgerLog>>]_vars

C14_Witness ==
  \E t, u \in Ticks :
    /\ tick[t].pc = "casWriteAnchor"
    /\ tickLog[u].outcome = "skipped"
    /\ added = MaxAdds

Min(a, b) == IF a <= b THEN a ELSE b

\* The limit in force at the drain step of the invocation t.
CapAtDrain(t) == getProtocol(tickLog[t].blockNumber + 1).maxOperationsPerBatch

\* C15: at the drain step of every tick the batch is the first min(n, cap)
\* elements of the queue in queue order, n being the length of the queue at the
\* drain and cap the maxOperationsPerBatch of getProtocol(blockNumber + 1) of
\* the last block; the queue afterwards is the remaining elements in order.
C15_BatchIsCappedHead ==
  \A t \in Ticks :
    tickLog[t].drained =>
      LET queue == tickLog[t].queueAtDrain
          n     == Len(queue)
          k     == Min(n, CapAtDrain(t))
      IN  /\ tick[t].batch = SubSeq(queue, 1, k)
          /\ tickLog[t].queueAfterDrain = SubSeq(queue, k + 1, n)

C15_Witness ==
  \E t \in Ticks :
    /\ tickLog[t].drained
    /\ Len(tickLog[t].queueAtDrain) > CapAtDrain(t)
    /\ tickLog[t].queueAfterDrain # <<>>

\* C16, as stated: an operation passed to add while a tick is running, at any
\* point after the tick set the processing flag, also while the tick is
\* suspended on getLastBlock, is never part of that tick's batch.
C16_AddedMidTickExcluded ==
  \A t \in Ticks :
    Range(tick[t].batch) \cap (tickLog[t].addedBeforeDrain \cup tickLog[t].addedAfterDrain) = {}

\* C16, amended: an operation passed to add after the tick has drained the
\* queue is never part of that tick's batch; an operation passed to add while
\* the tick is suspended on getLastBlock is part of that tick's batch when it
\* is among the first maxOperationsPerBatch elements of the queue at the drain.
C16_AddedAfterDrainExcluded ==
  \A t \in Ticks :
    /\ Range(tick[t].batch) \cap tickLog[t].addedAfterDrain = {}
    /\ tickLog[t].drained =>
         \A i \in 1..Len(tickLog[t].queueAtDrain) :
           (tickLog[t].queueAtDrain[i] \in tickLog[t].addedBeforeDrain /\ i <= CapAtDrain(t))
             => tickLog[t].queueAtDrain[i] \in Range(tick[t].batch)

C16_Witness ==
  \E t \in Ticks :
    /\ Range(tick[t].batch) \cap tickLog[t].addedBeforeDrain # {}
    /\ tickLog[t].addedAfterDrain # {}
    /\ tickLog[t].outcome = "anchored"

\* The anchor file the invocation t writes when its batch file is at batchFileHash.
AnchorFileOf(t, batchFileHash) ==
  AnchorFileBuffer([batchFileHash |-> batchFileHash,
                    merkleRoot |-> MerkleRootHash(tick[t].batch)])

\* C17: in a tick with a non-empty batch the writes happen in the order batch
\* file to CAS, anchor file to CAS, anchor file address to the ledger, each
\* after the previous one succeeded; every value written to the ledger is the
\* CAS hash of an anchor file in CAS whose batchFileHash is the hash of a batch
\* file in CAS; a successful tick makes two CAS writes and one ledger write.
C17_WritesInOrder ==
  /\ \A t \in Ticks :
       LET writes == tickLog[t].casWrites
           anchored == tickLog[t].ledgerWrites
       IN  /\ Len(writes) <= 2
           /\ Len(writes) >= 1 => writes[1] = BatchFileBuffer(tick[t].batch)
           /\ Len(writes) = 2 => writes[2] = AnchorFileOf(t, CasHash(writes[1]))
           /\ anchored # <<>> => Len(writes) = 2 /\ anchored = <<CasHash(writes[2])>>
           /\ tickLog[t].outcome = "anchored" => Len(writes) = 2 /\ Len(anchored) = 1
           /\ tickLog[t].failedAt = "casWriteBatch" => writes = <<>> /\ anchored = <<>>
           /\ tickLog[t].failedAt = "casWriteAnchor" => Len(writes) = 1 /\ anchored = <<>>
           /\ tickLog[t].failedAt = "blockchainWrite" => Len(writes) = 2 /\ anchored = <<>>
  /\ \A i \in 1..Len(ledgerLog) :
       \E a \in casStore :
         /\ a[1] = "anchorFile"
         /\ ledgerLog[i] = CasHash(a)
         /\ \E b \in casStore : b[1] = "batchFile" /\ a[2] = CasHash(b)

C17_Witness ==
  /\ ledgerLog # <<>>
  /\ \E t, u \in Ticks :
       /\ tickLog[t].outcome = "anchored"
       /\ tickLog[u].failedAt = "casWriteAnchor"

\* The operations of the batch file an anchor file address leads to.
AnchoredOperations(anchorFileAddress) == Range(anchorFileAddress[2][2][2][2])

WriteSteps == {"casWriteBatch", "casWriteAnchor", "blockchainWrite"}

\* C18: when the batch file write, the anchor file write or the ledger write
\* fails, the tick swallows the error and the operations it drained are lost:
\* they are not back in the queue and no tick anchors them; when getLastBlock
\* fails, before the drain, the queue is left unchanged.
C18_FailureLosesBatch ==
  \A t \in Ticks :
    tickLog[t].outcome = "failed" =>
      /\ tick[t].pc = "done"
      /\ tickLog[t].failedAt \in WriteSteps =>
           /\ tick[t].batch # <<>>
           /\ Range(tick[t].batch) \cap Range(operations) = {}
           /\ \A u \in Ticks \ {t} : Range(tick[t].batch) \cap Range(tick[u].batch) = {}
           /\ \A i \in 1..Len(ledgerLog) :
                Range(tick[t].batch) \cap AnchoredOperations(ledgerLog[i]) = {}
      /\ tickLog[t].failedAt = "getLastBlock" =>
           /\ tick[t].batch = <<>>
           /\ tickLog[t].queueAfterDrain = tickLog[t].queueAtDrain

C18_Witness ==
  \E t, u \in Ticks :
    /\ tickLog[t].failedAt = "blockchainWrite"
    /\ tickLog[u].outcome = "anchored"
    /\ t < u

\* C19: a tick whose drained batch is empty, the queue being empty at the
\* drain, makes no CAS write and no ledger write, leaves the queue empty and
\* ends with the processing flag false.
C19_EmptyBatchNoWrites ==
  \A t \in Ticks :
    tickLog[t].drained /\ tickLog[t].queueAtDrain = <<>> =>
      /\ tick[t].pc \in {"getBatchReturned", "done"}
      /\ tick[t].pc = "done" => tickLog[t].outcome = "empty" /\ ~tickLog[t].processingAtExit
      /\ tick[t].batch = <<>>
      /\ tickLog[t].casWrites = <<>>
      /\ tickLog[t].ledgerWrites = <<>>
      /\ tickLog[t].queueAfterDrain = <<>>

C19_Witness ==
  \E t, u \in Ticks :
    /\ tickLog[t].outcome = "empty"
    /\ tickLog[u].outcome = "anchored"

----------------------------------------------------------------------------
(* Order of delivery: every ledger slot applied at most once, in any order. *)

InitOrder == InitCache /\ pc = "ordering"

OrderApply ==
  \E tx \in TransactionNumbers : \E idx \in OperationIndexes(tx) :
    /\ pc = "ordering"
    /\ ResolvedOperation(tx, idx) \notin Range(history)
    /\ DoApply(ResolvedOperation(tx, idx))
    /\ history' = Append(history, ResolvedOperation(tx, idx))
    /\ UNCHANGED <<pc, pending, saved>>

NextOrder == OrderApply

SpecOrder == InitOrder /\ [][NextOrder]_vars

\* The operation of a set with the latest timestamp.
LatestOf(ops) ==
  CHOOSE op \in ops :
    \A other \in ops :
      PairLeq(OrderKey(OperationTimestampOf(other)), OrderKey(OperationTimestampOf(op)))

\* The two maps after the operations of a set are applied to an empty cache in
\* the order of their timestamps.
RECURSIVE AppliedInOrder(_)
AppliedInOrder(ops) ==
  IF ops = {} THEN NoMaps
  ELSE LET before == AppliedInOrder(ops \ {LatestOf(ops)})
           post   == ApplyOn(before.opHashToInfo, before.nextVersion, LatestOf(ops))
       IN  [opHashToInfo |-> post.opHashToInfo, nextVersion |-> post.nextVersion]

\* A map as a mapping, whatever the order its keys were inserted in.
AsMapping(maps) ==
  [opHashToInfo |-> maps.opHashToInfo, nextVersion |-> MapEntries(maps.nextVersion)]

\* The operations of history are in the order of their timestamps.
DeliveredInOrder ==
  \A i, j \in 1..Len(history) :
    i < j => PairLess(OrderKey(OperationTimestampOf(history[i])),
                      OrderKey(OperationTimestampOf(history[j])))

\* C20: the two maps do not depend on the order of apply: for a set of
\* operations with pairwise distinct timestamps, the same hash possibly at
\* several of them, every permutation gives the same opHashToInfo and
\* nextVersion mappings as delivery in timestamp order.
C20_OrderIndependent ==
  pc = "ordering" => AsMapping(Maps) = AsMapping(AppliedInOrder(Range(history)))

C20_Witness ==
  /\ pc = "ordering"
  /\ Len(history) = 4
  /\ ~DeliveredInOrder
  /\ \E i, j \in 1..Len(history) :
       /\ i < j
       /\ getHash(history[i]) = getHash(history[j])
       /\ PairLess(OrderKey(OperationTimestampOf(history[j])),
                   OrderKey(OperationTimestampOf(history[i])))
  /\ \E i, j \in 1..Len(history) :
       /\ i < j
       /\ getHash(history[i]) # getHash(history[j])
       /\ Truthy(history[i], "previousOperationHash")
       /\ Truthy(history[j], "previousOperationHash")
       /\ history[i].previousOperationHash = history[j].previousOperationHash
       /\ PairLess(OrderKey(OperationTimestampOf(history[j])),
                   OrderKey(OperationTimestampOf(history[i])))

----------------------------------------------------------------------------
(* Periodic rooting: the interval timer keeps invoking rootOperations.     *)

\* setInterval fires again after an invocation has finished: the record of
\* the finished invocation is taken for the next one.
NextInterval ==
  \E t \in 1..MaxTicks :
    /\ tick[t].pc = "done"
    /\ tick' = [tick EXCEPT ![t] = IdleTick]
    /\ tickLog' = [tickLog EXCEPT ![t] = NoTickLog]
    /\ UNCHANGED <<operations, processing, casStore, ledgerLog, added, drainLog, cacheVars>>

\* A finished invocation has no effect on the Rooter any more: its record is
\* released before anything else happens.
NoneFinished == \A t \in 1..MaxTicks : tick[t].pc # "done"

NextPeriodic ==
  \/ NoneFinished /\ Add
  \/ NoneFinished /\ RootOperations
  \/ NoneFinished /\ GetLastBlockResolves
  \/ NoneFinished /\ GetBatchReturns
  \/ NoneFinished /\ CasWriteBatchResolves
  \/ NoneFinished /\ CasWriteAnchorResolves
  \/ NoneFinished /\ BlockchainWriteResolves
  \/ NoneFinished /\ AwaitRejects
  \/ NextInterval

\* An awaited call of the blockchain or of CAS returns, resolved or rejected.
ExternalCallReturns ==
  \/ GetLastBlockResolves
  \/ CasWriteBatchResolves
  \/ CasWriteAnchorResolves
  \/ BlockchainWriteResolves
  \/ AwaitRejects

\* The timer keeps firing, a resumed invocation runs on, every awaited call
\* returns, and getLastBlock, called again and again, resolves again and again.
PeriodicFairness ==
  /\ WF_vars(RootOperations)
  /\ WF_vars(GetBatchReturns)
  /\ WF_vars(NextInterval)
  /\ WF_vars(ExternalCallReturns)
  /\ SF_vars(GetLastBlockResolves)

SpecPeriodic == Init /\ [][NextPeriodic]_vars /\ PeriodicFairness

RECURSIVE Concatenation(_)
Concatenation(seqs) ==
  IF seqs = <<>> THEN <<>> ELSE Head(seqs) \o Concatenation(Tail(seqs))

\* The operations passed to add so far, in the order of the calls.
AddedInOrder == [n \in 1..added |-> n]

\* C21: when ticks are invoked again and again, every external call returns,
\* getLastBlock resolves again and again and maxOperationsPerBatch >= 1, every
\* operation passed to add is eventually drained into the batch of some tick,
\* each operation is drained into exactly one batch, and the batches, one
\* after the other in tick order, follow the order of the add calls.
C21_QueueLiveness ==
  /\ [](Concatenation(drainLog) \o operations = AddedInOrder)
  /\ \A n \in 1..MaxAdds :
       (added >= n) ~> (\E i \in 1..Len(drainLog) : n \in Range(drainLog[i]))

C21_Witness ==
  /\ added = MaxAdds
  /\ operations = <<>>
  /\ Len(drainLog) >= 2
  /\ \E t \in Ticks : tickLog[t].failedAt = "getLastBlock"

====
